---- MODULE Spec2Model ----
(***************************************************************************)
(* usvg-parser: the text lowering engine (crates/usvg-parser/src/text.rs)  *)
(* and the input normalizer (crates/usvg-parser/src/lib.rs).               *)
(*                                                                         *)
(* A text subtree is a sequence of nodes in document order; every node     *)
(* carries its depth, so parent/children/descendants are computed the way  *)
(* the svgtree iterators deliver them.  Indices into Rust vectors are      *)
(* 0-based in the variables and translated at the point of access.         *)
(***************************************************************************)
EXTENDS Integers, Sequences, FiniteSets, TLC

VARIABLES
    doc,          \* the `text` element and its descendants, in document order
    above,        \* ancestors of the `text` element, outermost (svg) first
    pc,           \* position inside `convert`
    pos_list,     \* result of resolve_positions_list
    rotate_list,  \* result of resolve_rotate_list
    writing_mode, \* result of convert_writing_mode
    iter_state,   \* IterState of collect_text_chunks
    parent_out,   \* children of the output parent node
    input,        \* what an ingestion operation is called with
    ing           \* the ingestion call: stage reached, buffers, result

textVars == <<doc, above, pc, pos_list, rotate_list, writing_mode, iter_state, parent_out>>
vars == <<doc, above, pc, pos_list, rotate_list, writing_mode, iter_state, parent_out,
          input, ing>>

-----------------------------------------------------------------------------
(* Option<T>: None is the empty sequence, Some(v) is <<v>>.                *)
None == <<>>
Some(v) == <<v>>
IsSome(o) == Len(o) > 0
Unwrap(o) == o[1]

Min(a, b) == IF a <= b THEN a ELSE b
Max(a, b) == IF a >= b THEN a ELSE b

RECURSIVE SumSeq(_)
SumSeq(s) == IF s = <<>> THEN 0 ELSE Head(s) + SumSeq(Tail(s))

-----------------------------------------------------------------------------
(* Nodes.                                                                  *)

\* An element with no attributes set.
Elem(kind) ==
    [kind |-> kind, depth |-> 1, text |-> <<>>,
     x |-> None, y |-> None, dx |-> None, dy |-> None, rotate |-> None,
     visible |-> TRUE, font_size |-> 12, flow |-> None,
     font_weight |-> "", writing_mode |-> None, text_decoration |-> None]

\* A text node holding the code points `cps`.
TextNode(cps) == [Elem("#text") EXCEPT !.text = cps]

At(node, dep) == [node EXCEPT !.depth = dep]

is_element(n) == n.kind # "#text"
is_text(n) == n.kind = "#text"

\* Last index of the subtree rooted at i.
RECURSIVE SubtreeEnd(_, _, _)
SubtreeEnd(d, i, k) ==
    IF k + 1 <= Len(d) /\ d[k + 1].depth > d[i].depth
    THEN SubtreeEnd(d, i, k + 1)
    ELSE k

\* node.descendants(): the node itself and everything below it, document order.
Descendants(d, i) == i .. SubtreeEnd(d, i, i)

\* node.children(), in document order.
Children(d, i) ==
    SelectSeq([k \in 1 .. (SubtreeEnd(d, i, i) - i) |-> i + k],
              LAMBDA k : d[k].depth = d[i].depth + 1)

\* node.parent(), 0 for the `text` element itself.
ParentOf(d, i) ==
    IF i = 1 THEN 0
    ELSE CHOOSE p \in 1 .. (i - 1) :
            /\ d[p].depth = d[i].depth - 1
            /\ \A q \in (p + 1) .. (i - 1) : d[q].depth >= d[i].depth

\* node.ancestors() inside the subtree: the node first, the `text` element last.
RECURSIVE AncestorsIn(_, _)
AncestorsIn(d, i) ==
    IF i = 0 THEN <<>> ELSE <<i>> \o AncestorsIn(d, ParentOf(d, i))

\* c.len_utf8()
len_utf8(c) ==
    IF c < 128 THEN 1
    ELSE IF c < 2048 THEN 2
    ELSE IF c < 65536 THEN 3
    ELSE 4

\* str.len(): the length in bytes of a sequence of code points.
RECURSIVE byte_len(_)
byte_len(s) == IF s = <<>> THEN 0 ELSE len_utf8(Head(s)) + byte_len(Tail(s))

\* Mutant: counts the node's children only.
count_chars_children(d, i) ==
    SumSeq([k \in 1 .. Len(Children(d, i)) |-> Len(d[Children(d, i)[k]].text)])

\* count_chars: code points in all text nodes among the descendants.
count_chars(d, i) ==
    SumSeq([k \in 1 .. (SubtreeEnd(d, i, i) - i + 1) |->
               IF is_text(d[i + k - 1]) THEN Len(d[i + k - 1].text) ELSE 0])

-----------------------------------------------------------------------------
(* resolve_positions_list                                                  *)

EmptyPosition == [x |-> None, y |-> None, dx |-> None, dy |-> None]

\* vec![v; n]
RECURSIVE Repeat(_, _)
Repeat(v, n) == IF n <= 0 THEN <<>> ELSE <<v>> \o Repeat(v, n - 1)

\* `for i in 0..len { list[offset + i].$field = Some(num_list[i]); }`
\* st.ok turns FALSE when an index is out of bounds (the program panics).
\* st.touched collects every index the loops use.
RECURSIVE push_loop(_, _, _, _, _)
push_loop(st, field, num_list, i, len) ==
    IF i >= len \/ ~st.ok THEN st
    ELSE LET idx == st.offset + i IN
         IF idx >= Len(st.list)
         THEN [st EXCEPT !.ok = FALSE, !.touched = @ \cup {idx}]
         ELSE push_loop(
                [st EXCEPT !.list[idx + 1][field] = Some(num_list[i + 1]),
                           !.touched = @ \cup {idx}],
                field, num_list, i + 1, len)

\* Mutant: the whole attribute list is written, with no clamp at all.
push_list_whole(st, field, attr, child_chars) ==
    IF IsSome(attr)
    THEN push_loop(st, field, Unwrap(attr), 0, Len(Unwrap(attr)))
    ELSE st

\* Mutant: clamps to the list's own length only, not to the element's characters.
push_list_unclamped(st, field, attr, child_chars) ==
    IF IsSome(attr)
    THEN push_loop(st, field, Unwrap(attr), 0,
                   Min(Len(Unwrap(attr)), Len(st.list) - st.offset))
    ELSE st

\* The push_list! macro for one field; `attr` is convert_list's result.
push_list(st, field, attr, child_chars) ==
    IF IsSome(attr)
    THEN push_loop(st, field, Unwrap(attr), 0, Min(Len(Unwrap(attr)), child_chars))
    ELSE st

\* One iteration of `for child in text_node.descendants()`.
positions_visit(d, k, st) ==
    IF is_element(d[k])
    THEN IF d[k].kind \notin {"text", "tspan"}
         THEN st
         ELSE LET n  == count_chars(d, k)
                  s1 == push_list(st, "x", d[k].x, n)
                  s2 == push_list(s1, "y", d[k].y, n)
                  s3 == push_list(s2, "dx", d[k].dx, n)
              IN  push_list(s3, "dy", d[k].dy, n)
    ELSE [st EXCEPT !.offset = @ + Len(d[k].text)]

RECURSIVE positions_loop(_, _, _)
positions_loop(d, k, st) ==
    IF k > Len(d) \/ ~st.ok THEN st
    ELSE positions_loop(d, k + 1, positions_visit(d, k, st))

resolve_positions_list(d) ==
    positions_loop(d, 1,
        [list |-> Repeat(EmptyPosition, count_chars(d, 1)),
         offset |-> 0, ok |-> TRUE, touched |-> {}])

-----------------------------------------------------------------------------
(* resolve_rotate_list                                                     *)

\* `for i in 0..count_chars(child)` with the shared `last`.
RECURSIVE rotate_loop(_, _, _, _)
rotate_loop(st, rotate, i, n) ==
    IF i >= n \/ ~st.ok THEN st
    ELSE LET idx == st.offset + i IN
         IF idx >= Len(st.list)
         THEN [st EXCEPT !.ok = FALSE, !.touched = @ \cup {idx}]
         ELSE IF i < Len(rotate)
              THEN rotate_loop(
                     [st EXCEPT !.list[idx + 1] = rotate[i + 1],
                                !.last = rotate[i + 1],
                                !.touched = @ \cup {idx}],
                     rotate, i + 1, n)
              ELSE rotate_loop(
                     [st EXCEPT !.list[idx + 1] = st.last,
                                !.touched = @ \cup {idx}],
                     rotate, i + 1, n)

\* Mutant: stops at the end of the rotate list, nothing is repeated.
rotate_visit_no_repeat(d, k, st) ==
    IF is_element(d[k])
    THEN IF IsSome(d[k].rotate)
         THEN rotate_loop(st, Unwrap(d[k].rotate), 0,
                          Min(Len(Unwrap(d[k].rotate)), count_chars(d, k)))
         ELSE st
    ELSE [st EXCEPT !.offset = @ + Len(d[k].text)]

\* One iteration of `for child in text_node.descendants()`.
rotate_visit(d, k, st) ==
    IF is_element(d[k])
    THEN IF IsSome(d[k].rotate)
         THEN rotate_loop(st, Unwrap(d[k].rotate), 0, count_chars(d, k))
         ELSE st
    ELSE [st EXCEPT !.offset = @ + Len(d[k].text)]

RECURSIVE rotate_list_loop(_, _, _)
rotate_list_loop(d, k, st) ==
    IF k > Len(d) \/ ~st.ok THEN st
    ELSE rotate_list_loop(d, k + 1, rotate_visit(d, k, st))

resolve_rotate_list(d) ==
    rotate_list_loop(d, 1,
        [list |-> Repeat(0, count_chars(d, 1)),
         last |-> 0, offset |-> 0, ok |-> TRUE, touched |-> {}])

-----------------------------------------------------------------------------
(* convert_writing_mode                                                    *)

Reverse(s) == [k \in 1 .. Len(s) |-> s[Len(s) + 1 - k]]

\* text_node.ancestors(): the `text` element, then its ancestors, innermost first.
TextAncestors(d, ab) == <<d[1]>> \o Reverse(ab)

\* Mutant: the outermost element with the attribute decides.
convert_writing_mode_outermost(d, ab) ==
    LET anc  == TextAncestors(d, ab)
        have == {k \in 1 .. Len(anc) : IsSome(anc[k].writing_mode)}
    IN  IF have # {}
        THEN LET n == anc[CHOOSE k \in have : \A j \in have : k >= j] IN
             IF Unwrap(n.writing_mode) \in {"tb", "tb-rl", "vertical-rl", "vertical-lr"}
             THEN "TopToBottom"
             ELSE "LeftToRight"
        ELSE "LeftToRight"

convert_writing_mode(d, ab) ==
    LET anc  == TextAncestors(d, ab)
        have == {k \in 1 .. Len(anc) : IsSome(anc[k].writing_mode)}
    IN  IF have # {}
        THEN LET n == anc[CHOOSE k \in have : \A j \in have : k <= j] IN
             IF Unwrap(n.writing_mode) \in {"tb", "tb-rl", "vertical-rl", "vertical-lr"}
             THEN "TopToBottom"
             ELSE "LeftToRight"
        ELSE "LeftToRight"

-----------------------------------------------------------------------------
(* resolve_decoration.  A text-decoration attribute is the sequence of the  *)
(* pieces `split(' ')` gives; a style is named by the node it is resolved   *)
(* from (index in the subtree, 1 is the `text` element).                   *)

HasToken(attr, value) ==
    IsSome(attr) /\ \E k \in 1 .. Len(Unwrap(attr)) : Unwrap(attr)[k] = value

\* conv_text_decoration::find_decoration: the `text` element and its ancestors.
find_decoration(d, ab, value) ==
    \E k \in 1 .. Len(TextAncestors(d, ab)) :
        HasToken(TextAncestors(d, ab)[k].text_decoration, value)

conv_text_decoration(d, ab) ==
    [has_underline |-> find_decoration(d, ab, "underline"),
     has_overline |-> find_decoration(d, ab, "overline"),
     has_line_through |-> find_decoration(d, ab, "line-through")]

conv_text_decoration2(d, tspan) ==
    [has_underline |-> d[tspan].text_decoration = Some(<<"underline">>),
     has_overline |-> d[tspan].text_decoration = Some(<<"overline">>),
     has_line_through |-> d[tspan].text_decoration = Some(<<"line-through">>)]

\* The closure gen_style of resolve_decoration.
gen_style(tspan, in_tspan, in_text) ==
    IF in_tspan THEN Some(tspan) ELSE IF in_text THEN Some(1) ELSE None

resolve_decoration(d, ab, tspan) ==
    LET text_dec  == conv_text_decoration(d, ab)
        tspan_dec == conv_text_decoration2(d, tspan)
    IN  [underline |-> gen_style(tspan, tspan_dec.has_underline, text_dec.has_underline),
         overline |-> gen_style(tspan, tspan_dec.has_overline, text_dec.has_overline),
         line_through |-> gen_style(tspan, tspan_dec.has_line_through,
                                    text_dec.has_line_through)]

-----------------------------------------------------------------------------
(* resolve_font_weight                                                     *)

\* Mutant: the value is not clamped.
bound_unclamped(min, val, max) == val

\* fn bound(min, val, max)
bound(min, val, max) == Max(min, Min(max, val))

\* Mutant: `lighter` takes the same 300 step as `bolder` at weight 400.
font_weight_step_sym(st, value) ==
    LET weight == st.weight IN
    CASE value = "normal" -> [st EXCEPT !.weight = 400]
      [] value = "bold" -> [st EXCEPT !.weight = 700]
      [] value \in {"100", "200", "300", "400", "500", "600", "700", "800", "900"} ->
            [st EXCEPT !.weight =
                CASE value = "100" -> 100 [] value = "200" -> 200
                  [] value = "300" -> 300 [] value = "400" -> 400
                  [] value = "500" -> 500 [] value = "600" -> 600
                  [] value = "700" -> 700 [] value = "800" -> 800
                  [] OTHER -> 900]
      [] value = "bolder" ->
            [st EXCEPT !.weight =
                bound(100, weight + (IF weight = 400 THEN 300 ELSE 100), 900)]
      [] value = "lighter" ->
            LET step == IF weight = 400 THEN 300 ELSE 100 IN
            IF weight < step
            THEN [st EXCEPT !.weight = 900, !.underflow = TRUE]
            ELSE [st EXCEPT !.weight = bound(100, weight - step, 900)]
      [] OTHER -> st

\* The body of `for n in nodes.iter().rev().skip(1)`: one font-weight value.
\* `weight - step` is a usize subtraction: below zero it panics (debug) or
\* wraps to a huge value that bound() cuts to 900 (release); st.underflow
\* records that it happened.
font_weight_step(st, value) ==
    LET weight == st.weight IN
    CASE value = "normal" -> [st EXCEPT !.weight = 400]
      [] value = "bold" -> [st EXCEPT !.weight = 700]
      [] value = "100" -> [st EXCEPT !.weight = 100]
      [] value = "200" -> [st EXCEPT !.weight = 200]
      [] value = "300" -> [st EXCEPT !.weight = 300]
      [] value = "400" -> [st EXCEPT !.weight = 400]
      [] value = "500" -> [st EXCEPT !.weight = 500]
      [] value = "600" -> [st EXCEPT !.weight = 600]
      [] value = "700" -> [st EXCEPT !.weight = 700]
      [] value = "800" -> [st EXCEPT !.weight = 800]
      [] value = "900" -> [st EXCEPT !.weight = 900]
      [] value = "bolder" ->
            LET step == IF weight = 400 THEN 300 ELSE 100 IN
            [st EXCEPT !.weight = bound(100, weight + step, 900)]
      [] value = "lighter" ->
            LET step == IF weight = 400 THEN 200 ELSE 100 IN
            IF weight < step
            THEN [st EXCEPT !.weight = 900, !.underflow = TRUE]
            ELSE [st EXCEPT !.weight = bound(100, weight - step, 900)]
      [] OTHER -> st

\* The font-weight attributes of node.ancestors(), reversed, without the
\* document root (which is no element): outermost element first, the node last.
font_weight_chain(d, ab, i) ==
    [k \in 1 .. Len(ab) |-> ab[k].font_weight]
      \o [k \in 1 .. Len(AncestorsIn(d, i)) |-> d[Reverse(AncestorsIn(d, i))[k]].font_weight]

RECURSIVE font_weight_fold(_, _)
font_weight_fold(st, chain) ==
    IF chain = <<>> THEN st
    ELSE font_weight_fold(font_weight_step(st, Head(chain)), Tail(chain))

\* `weight as u16`
resolve_font_weight(d, ab, i) ==
    font_weight_fold([weight |-> 400, underflow |-> FALSE],
                     font_weight_chain(d, ab, i)).weight % 65536

-----------------------------------------------------------------------------
(* collect_text_chunks                                                     *)

Linear == [kind |-> "Linear", path |-> 0]
Path(p) == [kind |-> "Path", path |-> p]

\* resolve_text_flow: the referenced shape converts to a path, or it does not.
resolve_text_flow(d, i) ==
    IF IsSome(d[i].flow) THEN Some(Path(Unwrap(d[i].flow))) ELSE None

\* NonZeroPositiveF32::new(font_size).is_some()
NonZeroPositive(v) == v > 0

\* The TextSpan template built from the enclosing element (`parent`).
new_span(d, ab, parent) ==
    [start |-> 0, end |-> 0,
     font_size |-> d[parent].font_size,
     weight |-> resolve_font_weight(d, ab, parent),
     decoration |-> resolve_decoration(d, ab, parent),
     elem |-> parent]

\* Mutant: consumed characters are not counted.
skip_chars_uncounted(st, n) == st

\* `iter_state.chars_count += n` for characters that are consumed, not emitted.
skip_chars(st, n) == [st EXCEPT !.chars_count = @ + n]

\* Mutant: a skipped subtree does not advance chars_count.
skip_subtree_uncounted(d, st, child) == st

\* A dropped textPath subtree: `iter_state.chars_count += count_chars(child)`.
skip_subtree(d, st, child) == skip_chars(st, count_chars(d, child))

\* After the recursion into an element child.
leave_element(d, st, child) ==
    [st EXCEPT !.text_flow = Linear,
               !.split_chunk = IF d[child].kind = "textPath" THEN TRUE ELSE @]

\* Mutant: no split after a textPath.
is_new_chunk_no_split(pl, st) ==
    \/ IsSome(pl[st.chars_count + 1].x)
    \/ IsSome(pl[st.chars_count + 1].y)
    \/ st.chunks = <<>>

\* The `is_new_chunk` condition; pl[chars_count] is in bounds here.
is_new_chunk(pl, st) ==
    \/ IsSome(pl[st.chars_count + 1].x)
    \/ IsSome(pl[st.chars_count + 1].y)
    \/ st.split_chunk
    \/ st.chunks = <<>>

\* Mutant: a new span of an existing chunk starts at byte 0.
span_in_chunk_from_zero(st, span, char_len) ==
    [span EXCEPT !.start = 0, !.end = char_len]

\* `span2` of the `else if is_new_span` branch.
span_in_chunk(st, span, char_len) ==
    [span EXCEPT !.start = st.chunk_bytes_count,
                 !.end = st.chunk_bytes_count + char_len]

\* The body of `for c in child.text().chars()` for one character.
\* st.log records, per emitted character, the index used and the decision.
emit_char(pl, st, span, node, k, c, is_new_span) ==
    IF st.chars_count >= Len(pl)
    THEN [st EXCEPT !.ok = FALSE]
    ELSE
    LET char_len == len_utf8(c)
        new      == is_new_chunk(pl, st)
        s0       == [st EXCEPT !.split_chunk = FALSE]
        last     == Len(s0.chunks)
        s1 == IF new
              THEN [s0 EXCEPT
                      !.chunk_bytes_count = 0,
                      !.chunks = Append(@,
                          [x |-> pl[st.chars_count + 1].x,
                           y |-> pl[st.chars_count + 1].y,
                           spans |-> <<[span EXCEPT !.start = 0, !.end = char_len]>>,
                           text_flow |-> st.text_flow,
                           text |-> <<c>>])]
              ELSE IF is_new_span
              THEN [s0 EXCEPT
                      !.chunks[last].text = Append(@, c),
                      !.chunks[last].spans = Append(@, span_in_chunk(s0, span, char_len))]
              ELSE [s0 EXCEPT
                      !.chunks[last].text = Append(@, c),
                      !.chunks[last].spans[Len(s0.chunks[last].spans)].end = @ + char_len]
    IN  [s1 EXCEPT !.chars_count = @ + 1,
                   !.chunk_bytes_count = @ + char_len,
                   !.log = Append(@, [idx |-> st.chars_count, new_chunk |-> new,
                                      node |-> node, k |-> k])]

RECURSIVE char_loop(_, _, _, _, _)
char_loop(pl, st, span, node, k) ==
    IF k > Len(node.text) \/ ~st.ok THEN st
    ELSE char_loop(pl, emit_char(pl, st, span, node.id, k, node.text[k], k = 1),
                   span, node, k + 1)

\* A text-node child of `parent`.
visit_text(d, ab, pl, parent, child, st) ==
    IF ~d[parent].visible
    THEN skip_chars(st, Len(d[child].text))
    ELSE IF ~NonZeroPositive(d[parent].font_size)
    THEN skip_chars(st, Len(d[child].text))
    ELSE char_loop(pl, st, new_span(d, ab, parent),
                   [id |-> child, text |-> d[child].text], 1)

RECURSIVE collect_text_chunks_impl(_, _, _, _, _)
RECURSIVE collect_children(_, _, _, _, _, _)

\* One iteration of `for child in parent.children()`.
visit_child(d, ab, pl, parent, child, st) ==
    IF is_element(d[child])
    THEN IF d[child].kind = "textPath"
         THEN IF d[parent].kind # "text"
              THEN skip_subtree(d, st, child)
              ELSE IF ~IsSome(resolve_text_flow(d, child))
              THEN skip_subtree(d, st, child)
              ELSE leave_element(d,
                     collect_text_chunks_impl(d, ab, pl, child,
                        [st EXCEPT !.text_flow = Unwrap(resolve_text_flow(d, child)),
                                   !.split_chunk = TRUE]),
                     child)
         ELSE leave_element(d, collect_text_chunks_impl(d, ab, pl, child, st), child)
    ELSE visit_text(d, ab, pl, parent, child, st)

\* Mutant: the children are visited from the last to the first.
collect_children_backwards(d, ab, pl, parent, kids, st) ==
    IF kids = <<>> \/ ~st.ok THEN st
    ELSE collect_children(d, ab, pl, parent, SubSeq(kids, 1, Len(kids) - 1),
                          visit_child(d, ab, pl, parent, kids[Len(kids)], st))

collect_children(d, ab, pl, parent, kids, st) ==
    IF kids = <<>> \/ ~st.ok THEN st
    ELSE collect_children(d, ab, pl, parent, Tail(kids),
                          visit_child(d, ab, pl, parent, Head(kids), st))

collect_text_chunks_impl(d, ab, pl, parent, st) ==
    collect_children(d, ab, pl, parent, Children(d, parent), st)

NewIterState ==
    [chars_count |-> 0, chunk_bytes_count |-> 0, split_chunk |-> FALSE,
     text_flow |-> Linear, chunks |-> <<>>, ok |-> TRUE, log |-> <<>>]

collect_text_chunks(d, ab, pl) ==
    collect_text_chunks_impl(d, ab, pl, 1, NewIterState)

-----------------------------------------------------------------------------
(* Input normalizer (lib.rs): byte strings are sequences of 0..255, text   *)
(* is a sequence of code points.  Result<T, E>: [ok, val].                 *)

Ok(v) == [ok |-> TRUE, val |-> v]
Err(e) == [ok |-> FALSE, val |-> e]

\* slice.starts_with(prefix)
starts_with(b, prefix) == Len(b) >= Len(prefix) /\ SubSeq(b, 1, Len(prefix)) = prefix

IsCont(b) == 128 <= b /\ b <= 191

\* std::str::from_utf8: the code points, or an error.
RECURSIVE from_utf8(_)
from_utf8(b) ==
    IF b = <<>> THEN Ok(<<>>)
    ELSE
    LET b1 == b[1]
        n  == IF b1 < 128 THEN 1
              ELSE IF 194 <= b1 /\ b1 <= 223 THEN 2
              ELSE IF 224 <= b1 /\ b1 <= 239 THEN 3
              ELSE IF 240 <= b1 /\ b1 <= 244 THEN 4
              ELSE 0
        wellFormed ==
            /\ n > 0 /\ Len(b) >= n
            /\ \A k \in 2 .. n : IsCont(b[k])
            /\ (b1 = 224 => b[2] >= 160)
            /\ (b1 = 237 => b[2] <= 159)
            /\ (b1 = 240 => b[2] >= 144)
            /\ (b1 = 244 => b[2] <= 143)
    IN  IF ~wellFormed THEN Err("Utf8Error")
        ELSE LET cp == CASE n = 1 -> b1
                         [] n = 2 -> (b1 - 192) * 64 + (b[2] - 128)
                         [] n = 3 -> (b1 - 224) * 4096 + (b[2] - 128) * 64 + (b[3] - 128)
                         [] OTHER -> (b1 - 240) * 262144 + (b[2] - 128) * 4096
                                       + (b[3] - 128) * 64 + (b[4] - 128)
                 rest == from_utf8(SubSeq(b, n + 1, Len(b)))
             IN  IF rest.ok THEN Ok(<<cp>> \o rest.val) ELSE rest

IsHighSurrogate(u) == 55296 <= u /\ u <= 56319
IsLowSurrogate(u) == 56320 <= u /\ u <= 57343

\* String::from_utf16: surrogate pairs are joined, a lone surrogate is an error.
RECURSIVE from_utf16(_)
from_utf16(units) ==
    IF units = <<>> THEN Ok(<<>>)
    ELSE LET u == units[1] IN
         IF IsHighSurrogate(u)
         THEN IF Len(units) >= 2 /\ IsLowSurrogate(units[2])
              THEN LET rest == from_utf16(SubSeq(units, 3, Len(units))) IN
                   IF rest.ok
                   THEN Ok(<<65536 + (u - 55296) * 1024 + (units[2] - 56320)>> \o rest.val)
                   ELSE rest
              ELSE Err("FromUtf16Error")
         ELSE IF IsLowSurrogate(u) THEN Err("FromUtf16Error")
         ELSE LET rest == from_utf16(Tail(units)) IN
              IF rest.ok THEN Ok(<<u>> \o rest.val) ELSE rest

\* u16::from_le_bytes / u16::from_be_bytes
to_u16(order, lo, hi) == IF order = "le" THEN lo + 256 * hi ELSE 256 * lo + hi

\* without_bom: bytes.chunks_exact(2) leaves out a trailing odd byte.
without_bom(bytes, order) ==
    from_utf16([k \in 1 .. (Len(bytes) \div 2) |->
                   to_u16(order, bytes[2 * k - 1], bytes[2 * k])])

with_bom(bytes, order) ==
    IF Len(bytes) = 2 THEN Ok(<<>>)
    ELSE without_bom(SubSeq(bytes, 3, Len(bytes)), order)

\* Mutant: big-endian is tried whenever little-endian fails, mark or not.
string_from_utf16_bytes_retry(bytes) ==
    LET le == IF starts_with(bytes, <<255, 254>>) THEN with_bom(bytes, "le")
              ELSE without_bom(bytes, "le")
    IN  IF starts_with(bytes, <<254, 255>>) THEN with_bom(bytes, "be")
        ELSE IF le.ok THEN le
        ELSE IF starts_with(bytes, <<255, 254>>)
             THEN without_bom(SubSeq(bytes, 3, Len(bytes)), "be")
             ELSE without_bom(bytes, "be")

string_from_utf16_bytes(bytes) ==
    IF starts_with(bytes, <<255, 254>>) THEN with_bom(bytes, "le")
    ELSE IF starts_with(bytes, <<254, 255>>) THEN with_bom(bytes, "be")
    ELSE LET le == without_bom(bytes, "le") IN
         IF le.ok THEN le ELSE without_bom(bytes, "be")

\* from_data::to_text
to_text(bytes) ==
    LET utf8 == from_utf8(bytes) IN
    IF utf8.ok THEN utf8
    ELSE LET utf16 == string_from_utf16_bytes(bytes) IN
         IF utf16.ok THEN utf16 ELSE Err("UnrecognizedEncoding")

\* flate2's GzDecoder, reduced to what the caller sees: after the magic
\* 1F 8B comes the payload and one trailer byte holding the payload's
\* length; anything else is rejected.
gz_read_to_end(bytes) ==
    IF /\ Len(bytes) >= 3
       /\ starts_with(bytes, <<31, 139>>)
       /\ bytes[Len(bytes)] = Len(bytes) - 3
    THEN Ok(SubSeq(bytes, 3, Len(bytes) - 1))
    ELSE Err("io::Error")

\* Mutant: the container's trailer byte is returned with the payload.
decompress_svgz_with_trailer(bytes) ==
    LET r == gz_read_to_end(bytes) IN
    IF r.ok THEN Ok(Append(r.val, bytes[Len(bytes)])) ELSE Err("MalformedGZip")

decompress_svgz(bytes) ==
    LET r == gz_read_to_end(bytes) IN
    IF r.ok THEN r ELSE Err("MalformedGZip")

\* Mutant: only the first NUL is removed.
RemoveFirstNul(text) ==
    IF \E k \in 1 .. Len(text) : text[k] = 0
    THEN LET k == CHOOSE k \in 1 .. Len(text) :
                     text[k] = 0 /\ \A j \in 1 .. (k - 1) : text[j] # 0
         IN  SubSeq(text, 1, k - 1) \o SubSeq(text, k + 1, Len(text))
    ELSE text

\* text.replace("\0", "")
RemoveNul(text) == SelectSeq(text, LAMBDA c : c # 0)

\* preprocess_text: the text handed to the parser, and whether it warned.
\* `len()` is the length in bytes.
preprocess_text(text, forgiving) ==
    IF forgiving
    THEN [text |-> RemoveNul(text),
          warned |-> byte_len(RemoveNul(text)) # byte_len(text)]
    ELSE [text |-> text, warned |-> FALSE]

\* The element budget of svgtree::Document::parse_tree.
ElementsLimit == 1000000

\* roxmltree::Document::parse_with_options: the parser is outside the
\* repository; what it answers for the text is part of the input (xml.ok,
\* xml.elements).
parse_with_options(text, xml) ==
    IF xml.ok THEN Ok(xml) ELSE Err("ParsingFailed")

\* svgtree::Document::parse_tree: document construction counts the elements.
parse_tree(xml) ==
    IF xml.elements > ElementsLimit THEN Err("ElementsLimitReached") ELSE Ok(xml)

\* converter::convert_doc: only its size check is visible from here.
convert_doc(xml) ==
    IF xml.size_ok THEN Ok("Tree") ELSE Err("InvalidSize")

\* A call returns `r` (a tree or an error) after running `ran`.
Return(st, ran, r) ==
    [st EXCEPT !.ipc = "returned", !.stages = st.stages \o ran, !.result = r]

\* from_data, the test on the first two bytes.
from_data(in, st) ==
    IF starts_with(in.data, <<31, 139>>)
    THEN [st EXCEPT !.ipc = "decompress_svgz"]
    ELSE [st EXCEPT !.ipc = "to_text", !.buf = in.data]

\* Mutant: data that does not decompress is read as plain text.
from_data_decompress_retry(in, st) ==
    LET r == decompress_svgz(in.data) IN
    IF r.ok
    THEN [st EXCEPT !.ipc = "to_text", !.buf = r.val,
                    !.stages = Append(st.stages, "decompress_svgz")]
    ELSE [st EXCEPT !.ipc = "to_text", !.buf = in.data,
                    !.stages = Append(st.stages, "decompress_svgz")]

\* from_data, `let data = decompress_svgz(data)?`.
from_data_decompress(in, st) ==
    LET r == decompress_svgz(in.data) IN
    IF r.ok
    THEN [st EXCEPT !.ipc = "to_text", !.buf = r.val,
                    !.stages = Append(st.stages, "decompress_svgz")]
    ELSE Return(st, <<"decompress_svgz">>, r.val)

\* from_data, `let text = to_text(data)?` up to the call of from_str.
from_data_to_text(in, st) ==
    LET r == to_text(st.buf) IN
    IF r.ok
    THEN [st EXCEPT !.ipc = "from_str", !.text = r.val,
                    !.stages = Append(st.stages, "to_text")]
    ELSE Return(st, <<"to_text">>, r.val)

\* from_str up to the call of from_xmltree.
from_str(in, st) ==
    LET pre == preprocess_text(st.text, in.forgiving)
        r   == parse_with_options(pre.text, in.xml)
    IN  IF r.ok
        THEN [st EXCEPT !.ipc = "from_xmltree", !.text = pre.text,
                        !.warned = pre.warned,
                        !.stages = st.stages \o <<"preprocess_text", "parse_with_options">>]
        ELSE [Return(st, <<"preprocess_text", "parse_with_options">>, r.val)
                 EXCEPT !.text = pre.text, !.warned = pre.warned]

from_xmltree(in, st) ==
    LET t == parse_tree(in.xml) IN
    IF ~t.ok THEN Return(st, <<"parse_tree">>, t.val)
    ELSE Return(st, <<"parse_tree", "convert_doc">>, convert_doc(t.val).val)

\* One call of the chain from_data -> from_str -> from_xmltree.
ingest_step(in, st) ==
    CASE st.ipc = "from_data" -> from_data(in, st)
      [] st.ipc = "decompress_svgz" -> from_data_decompress(in, st)
      [] st.ipc = "to_text" -> from_data_to_text(in, st)
      [] st.ipc = "from_str" -> from_str(in, st)
      [] st.ipc = "from_xmltree" -> from_xmltree(in, st)
      [] OTHER -> st

\* A whole ingestion call, from its entry to its return.
RECURSIVE ingest_run(_, _)
ingest_run(in, st) ==
    IF st.ipc = "returned" THEN st ELSE ingest_run(in, ingest_step(in, st))

-----------------------------------------------------------------------------
(* Inputs of the ingestion operations.                                     *)

MaxPayload == 2
MaxBytes == 4

RECURSIVE SeqsUpTo(_, _)
SeqsUpTo(S, n) ==
    IF n = 0 THEN {<<>>}
    ELSE LET shorter == SeqsUpTo(S, n - 1) IN
         shorter \cup {Append(q, e) : q \in {r \in shorter : Len(r) = n - 1}, e \in S}

\* '<', NUL and D8 (half of a surrogate in either byte order).
Payloads == SeqsUpTo({60, 0, 216}, MaxPayload)

\* A payload in the gzip container, as gz_read_to_end reads it.
Gzip(payload) == <<31, 139>> \o payload \o <<Len(payload)>>

\* UTF-8 text with a two-byte character (e-acute), alone and after '<'.
Utf8Samples == {<<195, 169>>, <<60, 195, 169>>}

\* Plain data, compressed data, and compressed data cut short.
IngestData ==
    Payloads \cup {Gzip(q) : q \in Payloads} \cup {<<31, 139>> \o q : q \in Payloads}
        \cup Utf8Samples \cup {Gzip(q) : q \in Utf8Samples}

\* NUL, '<', the bytes of e-acute in UTF-8, surrogate halves, byte-order marks.
DecodeBytes == SeqsUpTo({0, 60, 195, 169, 216, 220, 254, 255}, MaxBytes)

\* Text given to from_str directly: '<', NUL, e-acute.
IngestTexts == SeqsUpTo({60, 0, 233}, MaxPayload)

Xml(ok, elements, size_ok) == [ok |-> ok, elements |-> elements, size_ok |-> size_ok]

\* What the XML parser and the converter find in the text.
XmlOutcomes ==
    {Xml(FALSE, 0, TRUE)}
        \cup {Xml(TRUE, n, z) : n \in {1, ElementsLimit, ElementsLimit + 1}, z \in BOOLEAN}

NoInput ==
    [entry |-> "none", data |-> <<>>, text |-> <<>>, forgiving |-> FALSE,
     xml |-> Xml(FALSE, 0, TRUE)]

NewCall(entry) ==
    [ipc |-> entry, buf |-> <<>>, text |-> <<>>, warned |-> FALSE,
     stages |-> <<>>, result |-> "none"]

-----------------------------------------------------------------------------
(* Inputs: bounded families of text subtrees.                              *)

MaxNodes == 4   \* nodes of a generated subtree, the `text` element included
MaxChain == 3   \* elements on a generated font-weight chain

\* A list of `n` values that names the element `k` carrying it.
ListOf(k, n) == Some([i \in 1 .. n |-> 10 * k + i])

\* A generated subtree is first a code: the index of its root in the family's
\* `roots`, then per node 10 * (index in the family's `menu`) + depth.
CodeNode(fam, c) == At(fam.menu[c \div 10], c % 10)

\* Codes that extend `code` by one node.  A text node is a leaf, and two text
\* nodes are never adjacent siblings.
Extensions(fam, code) ==
    LET lastText  == Len(code) > 1 /\ is_text(fam.menu[code[Len(code)] \div 10])
        lastDepth == IF Len(code) = 1 THEN 1 ELSE code[Len(code)] % 10
    IN  { Append(code, 10 * md[1] + md[2]) :
            md \in { md \in (1 .. Len(fam.menu))
                              \X (2 .. (lastDepth + (IF lastText THEN 0 ELSE 1))) :
                       ~(is_text(fam.menu[md[1]]) /\ lastText /\ lastDepth = md[2]) } }

RECURSIVE Grow(_, _, _)
Grow(fam, frontier, n) ==
    IF n <= 0 \/ frontier = {} THEN frontier
    ELSE frontier \cup Grow(fam, UNION {Extensions(fam, c) : c \in frontier}, n - 1)

Codes(fam) == Grow(fam, {<<r>> : r \in 1 .. Len(fam.roots)}, MaxNodes - 1)

\* Attribute lists are written after the shape is fixed, so that every list
\* names its element: field `f` of node k gets ListOf(k, wanted length).
Fill(d) ==
    [k \in 1 .. Len(d) |->
        [d[k] EXCEPT
            !.x = IF IsSome(@) THEN ListOf(k, Unwrap(@)) ELSE None,
            !.y = IF IsSome(@) THEN ListOf(k, Unwrap(@)) ELSE None,
            !.dx = IF IsSome(@) THEN ListOf(k, Unwrap(@)) ELSE None,
            !.dy = IF IsSome(@) THEN ListOf(k, Unwrap(@)) ELSE None,
            !.rotate = IF IsSome(@) THEN ListOf(k, Unwrap(@)) ELSE None]]

Decode(fam, code) ==
    Fill([k \in 1 .. Len(code) |->
            IF k = 1 THEN fam.roots[code[1]] ELSE CodeNode(fam, code[k])])

\* Text nodes of the generated subtrees: "a" and "éb" (a 2-byte character).
ShortText == TextNode(<<97>>)
LongText == TextNode(<<233, 98>>)

\* Absolute positions against dropped subtrees and text paths.
BoundaryFamily ==
    [roots |-> <<Elem("text"),
                 [Elem("text") EXCEPT !.y = Some(2)]>>,
     menu |-> <<ShortText, LongText,
                [Elem("tspan") EXCEPT !.x = Some(1)],
                [Elem("tspan") EXCEPT !.visible = FALSE],
                [Elem("textPath") EXCEPT !.flow = Some(7)]>>]

\* Text paths that resolve, that do not, and that are nested.
FlowFamily ==
    [roots |-> <<Elem("text"),
                 [Elem("text") EXCEPT !.font_size = 0]>>,
     menu |-> <<ShortText, LongText,
                Elem("tspan"),
                [Elem("textPath") EXCEPT !.flow = Some(7)],
                Elem("textPath")>>]

\* Position lists shorter and longer than the element's characters.
PositionFamily ==
    [roots |-> <<Elem("text"),
                 [Elem("text") EXCEPT !.x = Some(4), !.dy = Some(1)]>>,
     menu |-> <<ShortText, LongText,
                [Elem("tspan") EXCEPT !.x = Some(1), !.dx = Some(3)],
                [Elem("tspan") EXCEPT !.x = Some(3), !.y = Some(0)],
                [Elem("textPath") EXCEPT !.flow = Some(7), !.x = Some(2), !.dy = Some(2)]>>]

\* Rotate lists, also empty ones and one on a textPath.
RotateFamily ==
    [roots |-> <<Elem("text"),
                 [Elem("text") EXCEPT !.rotate = Some(1)]>>,
     menu |-> <<ShortText, LongText,
                [Elem("tspan") EXCEPT !.rotate = Some(0)],
                [Elem("tspan") EXCEPT !.rotate = Some(2)],
                [Elem("textPath") EXCEPT !.flow = Some(7), !.rotate = Some(1)]>>]


BoundaryCodes == Codes(BoundaryFamily)
FlowCodes == Codes(FlowFamily)
PositionCodes == Codes(PositionFamily)
RotateCodes == Codes(RotateFamily)

DefaultAbove == <<Elem("svg")>>

\* The documented examples.
\* <text>a<tspan x="10 20 30">bc</tspan>d</text>
DocClamp ==
    <<Elem("text"),
      At(TextNode(<<97>>), 2),
      At([Elem("tspan") EXCEPT !.x = Some(<<10, 20, 30>>)], 2),
      At(TextNode(<<98, 99>>), 3),
      At(TextNode(<<100>>), 2)>>
\* <text><tspan x="100 110 120 130">a<tspan x="50">bc</tspan></tspan>d</text>
DocNested ==
    <<Elem("text"),
      At([Elem("tspan") EXCEPT !.x = Some(<<100, 110, 120, 130>>)], 2),
      At(TextNode(<<97>>), 3),
      At([Elem("tspan") EXCEPT !.x = Some(<<50>>)], 3),
      At(TextNode(<<98, 99>>), 4),
      At(TextNode(<<100>>), 2)>>
\* <text>A<textPath href="#p">B</textPath>C</text>
DocTextPath ==
    <<Elem("text"),
      At(TextNode(<<65>>), 2),
      At([Elem("textPath") EXCEPT !.flow = Some(7)], 2),
      At(TextNode(<<66>>), 3),
      At(TextNode(<<67>>), 2)>>
\* <text font-weight="bold"><tspan font-weight="lighter">X</tspan></text>
DocCascade ==
    <<[Elem("text") EXCEPT !.font_weight = "bold"],
      At([Elem("tspan") EXCEPT !.font_weight = "lighter"], 2),
      At(TextNode(<<88>>), 3)>>
\* <text><textPath href="#p"><tspan>A</tspan><tspan x="5">B</tspan></textPath>
\*   <tspan>...</tspan></text> and a three-byte character.
DocPathSpans ==
    <<Elem("text"),
      At([Elem("textPath") EXCEPT !.flow = Some(7)], 2),
      At(Elem("tspan"), 3),
      At(TextNode(<<65>>), 4),
      At([Elem("tspan") EXCEPT !.x = Some(<<5>>)], 3),
      At(TextNode(<<8364, 66>>), 4)>>

\* <text><tspan display="none" x="1">a</tspan>b<textPath href="#p">c</textPath>
\*   d<textPath href="#missing">e</textPath>f</text>
DocDropped ==
    <<Elem("text"),
      At([Elem("tspan") EXCEPT !.visible = FALSE, !.x = Some(<<1>>)], 2),
      At(TextNode(<<97>>), 3),
      At(TextNode(<<98>>), 2),
      At([Elem("textPath") EXCEPT !.flow = Some(7)], 2),
      At(TextNode(<<99>>), 3),
      At(TextNode(<<100>>), 2),
      At(Elem("textPath"), 2),
      At(TextNode(<<101>>), 3),
      At(TextNode(<<102>>), 2)>>

\* <text><tspan display="none">a</tspan></text>: no character is emitted.
DocAllDropped ==
    <<Elem("text"),
      At([Elem("tspan") EXCEPT !.visible = FALSE], 2),
      At(TextNode(<<97>>), 3)>>

Examples ==
    {DocClamp, DocNested, DocTextPath, DocCascade, DocPathSpans, DocDropped, DocAllDropped}

FontWeightValues ==
    {"", "normal", "bold", "100", "200", "300", "400", "500", "600", "700",
     "800", "900", "bolder", "lighter", "oblique"}
\* The values tried below the outermost element of a chain.
InnerFontWeightValues ==
    {"", "normal", "bold", "300", "bolder", "lighter", "oblique"}

RECURSIVE Chains(_)
Chains(n) ==
    IF n = 1 THEN {<<v>> : v \in FontWeightValues}
    ELSE LET shorter == Chains(n - 1) IN
         shorter \cup {Append(c, v) : c \in {s \in shorter : Len(s) = n - 1},
                                      v \in InnerFontWeightValues}

\* A chain of font-weight values laid over svg > g > text > tspan: the last
\* two values go to the `text` element and the span's `tspan`.
ChainInput(c) ==
    LET n == Len(c) IN
    IF n = 1
    THEN [above |-> <<>>,
          doc |-> <<[Elem("text") EXCEPT !.font_weight = c[1]],
                    At(TextNode(<<88>>), 2)>>]
    ELSE [above |-> [k \in 1 .. (n - 2) |-> [Elem("g") EXCEPT !.font_weight = c[k]]],
          doc |-> <<[Elem("text") EXCEPT !.font_weight = c[n - 1]],
                    At([Elem("tspan") EXCEPT !.font_weight = c[n]], 2),
                    At(TextNode(<<88>>), 3)>>]

WeightChains == Chains(MaxChain)

\* text-decoration values: absent, one token, a list of two, another token.
DecorationValues ==
    {None, Some(<<"underline">>), Some(<<"overline", "underline">>),
     Some(<<"line-through">>)}

\* svg > g > text > tspan > tspan with text in the `text` element and in both
\* tspans; `v` gives the text-decoration of g, text, outer and inner tspan.
DecorationInput(v) ==
    [above |-> <<Elem("svg"), [Elem("g") EXCEPT !.text_decoration = v[1]]>>,
     doc |-> <<[Elem("text") EXCEPT !.text_decoration = v[2]],
               At(TextNode(<<97>>), 2),
               At([Elem("tspan") EXCEPT !.text_decoration = v[3]], 2),
               At(TextNode(<<98>>), 3),
               At([Elem("tspan") EXCEPT !.text_decoration = v[4]], 3),
               At(TextNode(<<99>>), 4)>>]

\* writing-mode values: absent, the eight of the claim, an unknown token.
WritingModeValues ==
    {None, Some("lr"), Some("lr-tb"), Some("rl"), Some("rl-tb"), Some("tb"),
     Some("tb-rl"), Some("vertical-rl"), Some("vertical-lr"), Some("sideways")}

\* svg > g > text with the writing-mode values `v`; the tspan's own value is
\* not an ancestor's.
WritingModeInput(v) ==
    [above |-> <<[Elem("svg") EXCEPT !.writing_mode = v[1]],
                 [Elem("g") EXCEPT !.writing_mode = v[2]]>>,
     doc |-> <<[Elem("text") EXCEPT !.writing_mode = v[3]],
               At([Elem("tspan") EXCEPT !.writing_mode = Some("tb")], 2),
               At(TextNode(<<97>>), 3)>>]

WritingModeInputs ==
    {WritingModeInput(v) :
        v \in {None, Some("tb"), Some("lr")} \X WritingModeValues \X WritingModeValues}

DecorationInputs ==
    {DecorationInput(v) :
        v \in DecorationValues \X DecorationValues \X DecorationValues \X DecorationValues}

-----------------------------------------------------------------------------
(* convert: the lowering of one `text` element.                            *)

InitInput ==
    \/ /\ above = DefaultAbove
       /\ parent_out = <<>>
       /\ \/ \E c \in BoundaryCodes : doc = Decode(BoundaryFamily, c)
          \/ \E c \in FlowCodes : doc = Decode(FlowFamily, c)
          \/ \E c \in PositionCodes : doc = Decode(PositionFamily, c)
          \/ \E c \in RotateCodes : doc = Decode(RotateFamily, c)
    \/ /\ above = DefaultAbove
       /\ parent_out \in {<<>>, <<[kind |-> "Path"]>>}
       /\ doc \in Examples
    \/ /\ parent_out \in {<<>>, <<[kind |-> "Path"]>>}
       /\ \E c \in WeightChains : doc = ChainInput(c).doc /\ above = ChainInput(c).above
    \/ /\ parent_out = <<>>
       /\ \E i \in DecorationInputs : doc = i.doc /\ above = i.above
    \/ /\ parent_out = <<>>
       /\ \E i \in WritingModeInputs : doc = i.doc /\ above = i.above

Init ==
    /\ InitInput
    /\ pc = "start"
    /\ pos_list = <<>>
    /\ rotate_list = <<>>
    /\ writing_mode = "LeftToRight"
    /\ iter_state = NewIterState
    /\ input = NoInput
    /\ ing = NewCall("idle")

\* The Text record of `convert`.
TextRecord(pl, rl, wm, chunks) ==
    [kind |-> "Text", positions |-> pl, rotate |-> rl,
     writing_mode |-> wm, chunks |-> chunks]

\* Mutant: the new node replaces the parent's children.
append_kind_replacing(children, kind) == <<kind>>

\* parent.append_kind(kind)
append_kind(children, kind) == Append(children, kind)

\* `convert` from its first statement to `parent.append_kind`.  An index out
\* of bounds anywhere ends it without a Text record (pc = "panicked").
Convert ==
    /\ pc = "start"
    /\ LET pos == resolve_positions_list(doc)
           rot == resolve_rotate_list(doc)
           wm  == convert_writing_mode(doc, above)
           it  == IF pos.ok /\ rot.ok
                  THEN collect_text_chunks(doc, above, pos.list)
                  ELSE NewIterState
       IN  /\ pos_list' = pos.list
           /\ rotate_list' = rot.list
           /\ writing_mode' = wm
           /\ iter_state' = it
           /\ IF pos.ok /\ rot.ok /\ it.ok
              THEN /\ parent_out' = append_kind(parent_out,
                                              TextRecord(pos.list, rot.list, wm, it.chunks))
                   /\ pc' = "done"
              ELSE /\ parent_out' = parent_out
                   /\ pc' = "panicked"
    /\ UNCHANGED <<doc, above, input, ing>>

Next == Convert

Spec == Init /\ [][Next]_vars

-----------------------------------------------------------------------------
(* The ingestion operations as a state machine: one step per function      *)
(* call of from_data / from_str / from_xmltree.                            *)

TextIdle ==
    /\ doc = <<>>
    /\ above = <<>>
    /\ pc = "idle"
    /\ pos_list = <<>>
    /\ rotate_list = <<>>
    /\ writing_mode = "LeftToRight"
    /\ iter_state = NewIterState
    /\ parent_out = <<>>

InitIngest ==
    /\ TextIdle
    /\ \E f \in BOOLEAN, x \in XmlOutcomes :
          \/ \E d \in IngestData :
                input = [entry |-> "from_data", data |-> d, text |-> <<>>,
                         forgiving |-> f, xml |-> x]
          \/ \E t \in IngestTexts :
                input = [entry |-> "from_str", data |-> <<>>, text |-> t,
                         forgiving |-> f, xml |-> x]
          \/ /\ x.ok
             /\ input = [entry |-> "from_xmltree", data |-> <<>>, text |-> <<>>,
                         forgiving |-> f, xml |-> x]
    /\ ing = [NewCall(input.entry) EXCEPT !.text = input.text]

FromData ==
    /\ ing.ipc = "from_data"
    /\ ing' = from_data(input, ing)
    /\ UNCHANGED <<textVars, input>>

DecompressSvgz ==
    /\ ing.ipc = "decompress_svgz"
    /\ ing' = from_data_decompress(input, ing)
    /\ UNCHANGED <<textVars, input>>

ToText ==
    /\ ing.ipc = "to_text"
    /\ ing' = from_data_to_text(input, ing)
    /\ UNCHANGED <<textVars, input>>

FromStr ==
    /\ ing.ipc = "from_str"
    /\ ing' = from_str(input, ing)
    /\ UNCHANGED <<textVars, input>>

FromXmlTree ==
    /\ ing.ipc = "from_xmltree"
    /\ ing' = from_xmltree(input, ing)
    /\ UNCHANGED <<textVars, input>>

NextIngest == FromData \/ DecompressSvgz \/ ToText \/ FromStr \/ FromXmlTree

SpecIngest == InitIngest /\ [][NextIngest]_vars

\* from_data on plain bytes, up to the decoded text.
InitDecode ==
    /\ TextIdle
    /\ \E d \in DecodeBytes :
          input = [entry |-> "from_data", data |-> d, text |-> <<>>,
                   forgiving |-> TRUE, xml |-> Xml(TRUE, 1, TRUE)]
    /\ ing = NewCall("from_data")

NextDecode == FromData \/ ToText

SpecDecode == InitDecode /\ [][NextDecode]_vars

-----------------------------------------------------------------------------
(* Vocabulary of the properties: the subtree seen from the outside, by     *)
(* global character index.                                                 *)

\* Code points in the text nodes before node n in document order.
CharsBefore(d, n) == SumSeq([k \in 1 .. (n - 1) |-> Len(d[k].text)])

\* Code points in all text nodes of the subtree.
TotalChars(d) == CharsBefore(d, Len(d) + 1)

\* First character index of node n, and the index after its last character.
StartOf(d, n) == CharsBefore(d, n)
EndOf(d, n) == CharsBefore(d, SubtreeEnd(d, n, n) + 1)

\* Node n (an element with its descendants, or a text node) contains character i.
Contains(d, n, i) == StartOf(d, n) <= i /\ i < EndOf(d, n)

\* The text node holding character i.
CharNode(d, i) == CHOOSE n \in 1 .. Len(d) : is_text(d[n]) /\ Contains(d, n, i)

\* a is a proper ancestor of n.
IsAncestor(d, a, n) == a < n /\ n <= SubtreeEnd(d, a, a)

\* The textPath elements that start a path section: direct children of the
\* `text` element whose reference resolves.
ResolvedTextPaths(d) ==
    {t \in 2 .. Len(d) : d[t].kind = "textPath" /\ d[t].depth = 2 /\ IsSome(d[t].flow)}

\* Character i is consumed without being emitted.
Dropped(d, i) ==
    LET n == CharNode(d, i)
        p == ParentOf(d, n)
    IN  \/ \E t \in 2 .. Len(d) :
              /\ d[t].kind = "textPath" /\ IsAncestor(d, t, n)
              /\ (d[t].depth # 2 \/ ~IsSome(d[t].flow))
        \/ ~d[p].visible
        \/ d[p].font_size <= 0

DroppedCount(d) == Cardinality({i \in 0 .. (TotalChars(d) - 1) : Dropped(d, i)})

Chunks == iter_state.chunks
Log == iter_state.log

\* The log entries of the k-th chunk: from its opening entry to the next one.
ChunkOpenings == SelectSeq([j \in 1 .. Len(Log) |-> j], LAMBDA j : Log[j].new_chunk)
ChunkEntries(k) ==
    LET from == ChunkOpenings[k]
        to   == IF k < Len(ChunkOpenings) THEN ChunkOpenings[k + 1] - 1 ELSE Len(Log)
    IN  from .. to

-----------------------------------------------------------------------------
\* C1: when collect_text_chunks has finished, the spans of every chunk tile its
\* text buffer: the first starts at byte 0, each next one starts where the
\* previous ends, the last ends at the buffer's byte length, so the lengths
\* add up to the byte length and no span is reversed.
SpansTile(c) ==
    /\ Len(c.spans) >= 1
    /\ c.spans[1].start = 0
    /\ \A k \in 2 .. Len(c.spans) : c.spans[k].start = c.spans[k - 1].end
    /\ c.spans[Len(c.spans)].end = byte_len(c.text)
    /\ \A k \in 1 .. Len(c.spans) : c.spans[k].start <= c.spans[k].end
    /\ byte_len(c.text) =
          SumSeq([k \in 1 .. Len(c.spans) |-> c.spans[k].end - c.spans[k].start])

C1_SpansTileChunk ==
    pc = "done" =>
        /\ \A k \in 1 .. Len(Chunks) : SpansTile(Chunks[k])
        /\ parent_out[Len(parent_out)].chunks = Chunks

\* A chunk of several spans with a multi-byte character has been produced.
C1_Witness ==
    /\ pc = "done"
    /\ \E k \in 1 .. Len(Chunks) :
          /\ Len(Chunks[k].spans) >= 2
          /\ byte_len(Chunks[k].text) > Len(Chunks[k].text)
          /\ Chunks[k].spans[2].end - Chunks[k].spans[2].start >= 2

-----------------------------------------------------------------------------
\* C2: a chunk starts at character i.
BoundaryAt(i) == \E j \in 1 .. Len(Log) : Log[j].idx = i /\ Log[j].new_chunk

\* C2 as stated: for every character index i of the subtree, a chunk starts
\* at i iff x or y is set at i, or i = 0, or i is the first character of a
\* textPath section, or the first character after one.
C2_AsStated ==
    pc = "done" =>
        \A i \in 0 .. (TotalChars(doc) - 1) :
            BoundaryAt(i) <=>
                \/ IsSome(pos_list[i + 1].x)
                \/ IsSome(pos_list[i + 1].y)
                \/ i = 0
                \/ \E t \in 2 .. Len(doc) :
                      /\ doc[t].kind = "textPath"
                      /\ StartOf(doc, t) < EndOf(doc, t)
                      /\ (i = StartOf(doc, t) \/ i = EndOf(doc, t))

\* A resolved textPath child of `text` opens or closes after character p
\* (-1: before every character) and before character i.
TextPathBetween(d, p, i) ==
    \E t \in ResolvedTextPaths(d) :
        \/ p < StartOf(d, t) /\ StartOf(d, t) <= i
        \/ p < EndOf(d, t) /\ EndOf(d, t) <= i

\* C2, amended: chunks start at emitted characters only, and an emitted
\* character i starts a chunk iff x or y is set at i, or it is the first
\* emitted character, or a resolved textPath child of `text` opens or closes
\* between the previous emitted character and i.
C2_ChunkBoundaries ==
    pc = "done" =>
        /\ \A i \in 0 .. (TotalChars(doc) - 1) :
              (\E j \in 1 .. Len(Log) : Log[j].idx = i) <=> ~Dropped(doc, i)
        /\ \A j \in 1 .. Len(Log) :
              Log[j].new_chunk <=>
                  \/ IsSome(pos_list[Log[j].idx + 1].x)
                  \/ IsSome(pos_list[Log[j].idx + 1].y)
                  \/ j = 1
                  \/ TextPathBetween(doc, IF j = 1 THEN 0 - 1 ELSE Log[j - 1].idx,
                                     Log[j].idx)
        /\ Len(Chunks) = Len(ChunkOpenings)

\* A chunk starts only because a textPath closed, another only because x is
\* set, and a dropped character with a position starts none.
C2_Witness ==
    /\ pc = "done"
    /\ \E j \in 2 .. Len(Log) :
          /\ Log[j].new_chunk
          /\ ~IsSome(pos_list[Log[j].idx + 1].x)
          /\ ~IsSome(pos_list[Log[j].idx + 1].y)
    /\ \E i \in 0 .. (TotalChars(doc) - 1) : Dropped(doc, i)

-----------------------------------------------------------------------------
\* C3: code points in the chunks' buffers plus dropped code points equal
\* count_chars of the text element, and chars_count ends at that total.
EmittedCount == SumSeq([k \in 1 .. Len(Chunks) |-> Len(Chunks[k].text)])

C3_CharsAccounted ==
    pc = "done" =>
        /\ EmittedCount + DroppedCount(doc) = TotalChars(doc)
        /\ iter_state.chars_count = TotalChars(doc)

\* Characters were emitted, and others dropped under a skipped textPath.
C3_Witness ==
    /\ pc = "done"
    /\ EmittedCount > 0
    /\ \E t \in 2 .. Len(doc) :
          /\ doc[t].kind = "textPath"
          /\ t \notin ResolvedTextPaths(doc)
          /\ StartOf(doc, t) < EndOf(doc, t)

-----------------------------------------------------------------------------
\* C4: the Text record appended by convert has positions and rotate of length
\* total_chars, whatever was emitted or dropped.
C4_ListLengths ==
    pc = "done" =>
        LET t == parent_out[Len(parent_out)] IN
        /\ t.kind = "Text"
        /\ Len(t.positions) = TotalChars(doc)
        /\ Len(t.rotate) = TotalChars(doc)

\* A record was appended for a subtree with dropped and emitted characters.
C4_Witness ==
    /\ pc = "done"
    /\ DroppedCount(doc) > 0
    /\ EmittedCount > 0
    /\ Len(parent_out[Len(parent_out)].positions) > EmittedCount

-----------------------------------------------------------------------------
\* C5: every field of the resolved position of character i is the entry
\* i - start(E) of the list of the innermost text/tspan element E that
\* contains i and whose list has more than i - start(E) entries, None when
\* there is no such element; the two documented examples come out as
\* [None, 10, 20, None] and [100, 50, 120, None].
PositionSources(d, field, i) ==
    {e \in 1 .. Len(d) :
        /\ d[e].kind \in {"text", "tspan"}
        /\ Contains(d, e, i)
        /\ IsSome(d[e][field])
        /\ Len(Unwrap(d[e][field])) > i - StartOf(d, e)}

ExpectedPosition(d, field, i) ==
    LET src == PositionSources(d, field, i) IN
    IF src = {} THEN None
    ELSE LET e == CHOOSE e \in src : \A f \in src : f <= e IN
         Some(Unwrap(d[e][field])[i - StartOf(d, e) + 1])

C5_PositionsResolved ==
    pc = "done" =>
        /\ \A field \in {"x", "y", "dx", "dy"} :
              \A i \in 0 .. (TotalChars(doc) - 1) :
                  pos_list[i + 1][field] = ExpectedPosition(doc, field, i)
        /\ doc = DocClamp =>
              [i \in 1 .. 4 |-> pos_list[i].x] = <<None, Some(10), Some(20), None>>
        /\ doc = DocNested =>
              [i \in 1 .. 4 |-> pos_list[i].x] = <<Some(100), Some(50), Some(120), None>>
        /\ parent_out[Len(parent_out)].positions = pos_list

\* A nested tspan has overwritten a value of the outer list, and a list
\* longer than its element was cut.
C5_Witness ==
    /\ pc = "done"
    /\ \E i \in 0 .. (TotalChars(doc) - 1) :
          Cardinality(PositionSources(doc, "x", i)) >= 2
    /\ \E e \in 1 .. Len(doc) :
          /\ IsSome(doc[e].x)
          /\ Len(Unwrap(doc[e].x)) > EndOf(doc, e) - StartOf(doc, e)
          /\ EndOf(doc, e) < TotalChars(doc)

-----------------------------------------------------------------------------
\* The characters L..N of element e, L the length of its rotate list.
RotateTail(d, e) ==
    {i \in 0 .. (TotalChars(d) - 1) :
        /\ Contains(d, e, i)
        /\ i - StartOf(d, e) >= Len(Unwrap(d[e].rotate))}

\* Character i lies in a descendant of e that has a rotate attribute of its own.
RotateOverridden(d, e, i) ==
    \E c \in (e + 1) .. SubtreeEnd(d, e, e) :
        is_element(d[c]) /\ IsSome(d[c].rotate) /\ Contains(d, c, i)

-----------------------------------------------------------------------------
\* The resolved textPath child of `text` around character i, 0 when there is none.
PathSectionOf(d, i) ==
    LET ts == {t \in ResolvedTextPaths(d) : Contains(d, t, i)} IN
    IF ts = {} THEN 0 ELSE CHOOSE t \in ts : TRUE

\* Character i lies in no textPath at all.
OutsideTextPaths(d, i) ==
    ~\E t \in 2 .. Len(d) : d[t].kind = "textPath" /\ Contains(d, t, i)

\* C7: a chunk whose characters lie inside a resolved textPath child of the
\* text element flows along that path, a chunk whose characters lie outside
\* every textPath is Linear, whatever tspans and absolute positions the
\* textPath holds.
C7_FlowMatchesTextPath ==
    pc = "done" =>
        \A k \in 1 .. Len(Chunks) :
            /\ \A t \in ResolvedTextPaths(doc) :
                  (\A j \in ChunkEntries(k) : Contains(doc, t, Log[j].idx)) =>
                      Chunks[k].text_flow = Path(Unwrap(doc[t].flow))
            /\ (\A j \in ChunkEntries(k) : OutsideTextPaths(doc, Log[j].idx)) =>
                  Chunks[k].text_flow = Linear

-----------------------------------------------------------------------------
\* C8: the weight of a span is the left fold of the claim's table over the
\* font-weight values from the outermost element down to the span's element,
\* starting at 400; bold then lighter gives 600, bolder then lighter gives 600.
Clamp(lo, v, hi) == IF v < lo THEN lo ELSE IF v > hi THEN hi ELSE v

WeightTable(w, v) ==
    CASE v = "normal" -> 400
      [] v = "bold" -> 700
      [] v = "100" -> 100 [] v = "200" -> 200 [] v = "300" -> 300
      [] v = "400" -> 400 [] v = "500" -> 500 [] v = "600" -> 600
      [] v = "700" -> 700 [] v = "800" -> 800 [] v = "900" -> 900
      [] v = "bolder" -> Clamp(100, w + (IF w = 400 THEN 300 ELSE 100), 900)
      [] v = "lighter" -> Clamp(100, w - (IF w = 400 THEN 200 ELSE 100), 900)
      [] OTHER -> w

RECURSIVE WeightFold(_, _)
WeightFold(w, values) ==
    IF values = <<>> THEN w ELSE WeightFold(WeightTable(w, Head(values)), Tail(values))

\* Font-weight values from the outermost element down to element e.
WeightValuesTo(d, ab, e) ==
    [k \in 1 .. Len(ab) |-> ab[k].font_weight]
      \o [k \in 1 .. d[e].depth |->
            d[CHOOSE a \in 1 .. e : d[a].depth = k /\ (a = e \/ IsAncestor(d, a, e))].font_weight]

C8_FontWeightFold ==
    pc = "done" =>
        /\ \A k \in 1 .. Len(Chunks) :
              \A j \in 1 .. Len(Chunks[k].spans) :
                  LET sp == Chunks[k].spans[j] IN
                  sp.weight = WeightFold(400, WeightValuesTo(doc, above, sp.elem))
        /\ doc = DocCascade => Chunks[1].spans[1].weight = 600
        /\ (/\ Len(doc) = 3 /\ Len(Chunks) = 1 /\ is_element(doc[2])
             /\ \E p \in {<<>>, <<"">>, <<"400">>, <<"normal">>} :
                   WeightValuesTo(doc, above, 2) = p \o <<"bolder", "lighter">>)
              => Chunks[1].spans[1].weight = 600

\* `lighter` below a bold ancestor has been resolved to 600.
C8_Witness ==
    /\ pc = "done"
    /\ Len(doc) = 3 /\ Len(Chunks) = 1 /\ is_element(doc[2])
    /\ WeightValuesTo(doc, above, 2) = <<"bolder", "lighter">>
    /\ Chunks[1].spans[1].weight = 600

-----------------------------------------------------------------------------
(* Ingestion: stage order and errors.                                      *)

StageOrder ==
    <<"decompress_svgz", "to_text", "preprocess_text", "parse_with_options",
      "parse_tree", "convert_doc">>

StageError ==
    <<"MalformedGZip", "UnrecognizedEncoding", "none", "ParsingFailed",
      "ElementsLimitReached", "InvalidSize">>

HasGzipMagic == starts_with(input.data, <<31, 139>>)

\* The stage an entry point begins with.
FirstStage ==
    CASE input.entry = "from_data" -> IF HasGzipMagic THEN 1 ELSE 2
      [] input.entry = "from_str" -> 3
      [] OTHER -> 5

\* The bytes that are decoded to text: the container's payload, or the data.
TextBytes ==
    IF HasGzipMagic THEN SubSeq(input.data, 3, Len(input.data) - 1) ELSE input.data

\* Stage k cannot succeed on this input.
StageFails(k) ==
    CASE k = 1 -> Gzip(TextBytes) # input.data
      [] k = 2 -> /\ ~from_utf8(TextBytes).ok
                  /\ ~string_from_utf16_bytes(TextBytes).ok
      [] k = 3 -> FALSE
      [] k = 4 -> ~input.xml.ok
      [] k = 5 -> input.xml.elements > ElementsLimit
      [] OTHER -> ~input.xml.size_ok

FailingStages == {k \in FirstStage .. 6 : StageFails(k)}

\* The stage at which the call ends.
LastStage ==
    IF FailingStages = {} THEN 6
    ELSE CHOOSE k \in FailingStages : \A j \in FailingStages : k <= j

\* C9: the stages that have run are always a run of consecutive stages of
\* the fixed order decompress, decode, strip NULs, parse XML, build the
\* document (element count), convert, beginning at the entry point's first
\* stage (decompression only for data that starts with 1F 8B); a call
\* returns at the first stage that fails, with that stage's error, or after
\* conversion with the tree; no stage runs after the failing one, so no
\* decoding follows MalformedGZip and no conversion follows
\* ElementsLimitReached.
C9_StagesInOrder ==
    /\ ing.stages = SubSeq(StageOrder, FirstStage, FirstStage + Len(ing.stages) - 1)
    /\ ing.ipc # "returned" => ing.result = "none"
    /\ ing.ipc = "returned" =>
          /\ Len(ing.stages) = LastStage - FirstStage + 1
          /\ ing.result = IF FailingStages = {} THEN "Tree" ELSE StageError[LastStage]
    /\ ing.result = "MalformedGZip" =>
          \A k \in 1 .. Len(ing.stages) : ing.stages[k] # "to_text"
    /\ ing.result = "ElementsLimitReached" =>
          \A k \in 1 .. Len(ing.stages) : ing.stages[k] # "convert_doc"

\* Compressed data whose document has too many elements and a bad size: all
\* stages up to document construction ran and the element count decided.
C9_Witness ==
    /\ ing.result = "ElementsLimitReached"
    /\ ing.stages = SubSeq(StageOrder, 1, 5)
    /\ ~input.xml.size_ok

-----------------------------------------------------------------------------
(* Ingestion: text decoding.                                               *)

Utf8Bytes(c) ==
    IF c < 128 THEN <<c>>
    ELSE IF c < 2048 THEN <<192 + (c \div 64), 128 + (c % 64)>>
    ELSE IF c < 65536
         THEN <<224 + (c \div 4096), 128 + ((c \div 64) % 64), 128 + (c % 64)>>
    ELSE <<240 + (c \div 262144), 128 + ((c \div 4096) % 64),
           128 + ((c \div 64) % 64), 128 + (c % 64)>>

UnitBytes(u, order) ==
    IF order = "le" THEN <<u % 256, u \div 256>> ELSE <<u \div 256, u % 256>>

Utf16Bytes(c, order) ==
    IF c < 65536 THEN UnitBytes(c, order)
    ELSE UnitBytes(55296 + ((c - 65536) \div 1024), order)
            \o UnitBytes(56320 + ((c - 65536) % 1024), order)

\* The bytes of a text in an encoding ("utf8", "le", "be").
RECURSIVE Encode(_, _)
Encode(t, enc) ==
    IF t = <<>> THEN <<>>
    ELSE (IF enc = "utf8" THEN Utf8Bytes(t[1]) ELSE Utf16Bytes(t[1], enc))
            \o Encode(Tail(t), enc)

HasBom(b) == starts_with(b, <<255, 254>>) \/ starts_with(b, <<254, 255>>)

\* The bytes after the byte-order mark, whole 16-bit units only.
Utf16Body(b) ==
    LET rest == IF HasBom(b) THEN SubSeq(b, 3, Len(b)) ELSE b
    IN  SubSeq(rest, 1, 2 * (Len(rest) \div 2))

DecodesAs(b, enc) ==
    IF enc = "utf8" THEN from_utf8(b).ok ELSE from_utf16(
        [k \in 1 .. (Len(Utf16Body(b)) \div 2) |->
            IF enc = "le" THEN Utf16Body(b)[2 * k - 1] + 256 * Utf16Body(b)[2 * k]
            ELSE 256 * Utf16Body(b)[2 * k - 1] + Utf16Body(b)[2 * k]]).ok

\* The encodings the claim has tried, in order.
Attempts(b) ==
    IF DecodesAs(b, "utf8") THEN <<"utf8">>
    ELSE IF starts_with(b, <<255, 254>>) THEN <<"utf8", "le">>
    ELSE IF starts_with(b, <<254, 255>>) THEN <<"utf8", "be">>
    ELSE IF DecodesAs(b, "le") THEN <<"utf8", "le">>
    ELSE <<"utf8", "le", "be">>

\* C10: once from_data has decoded plain bytes, the text is the bytes read
\* as UTF-8 when they are valid UTF-8; otherwise as UTF-16 in the byte order
\* of the mark FF FE (little-endian) or FE FF (big-endian), the mark left
\* out and no other order tried; without a mark little-endian, and
\* big-endian only when little-endian fails; the call returns
\* UnrecognizedEncoding exactly when every attempted decoding fails.
C10_TextDecoding ==
    LET b    == input.data
        tried == Attempts(b)
        enc  == tried[Len(tried)]
    IN  ing.ipc \notin {"from_data", "to_text"} =>
           IF DecodesAs(b, enc)
           THEN /\ ing.ipc = "from_str"
                /\ ing.result = "none"
                /\ Encode(ing.text, enc) = (IF enc = "utf8" THEN b ELSE Utf16Body(b))
           ELSE /\ ing.ipc = "returned"
                /\ ing.result = "UnrecognizedEncoding"

\* Bytes with a little-endian mark that are not little-endian UTF-16 but
\* would be big-endian UTF-16: rejected, big-endian is not tried.
C10_Witness ==
    /\ ing.result = "UnrecognizedEncoding"
    /\ starts_with(input.data, <<255, 254>>)
    /\ without_bom(SubSeq(input.data, 3, Len(input.data)), "be").ok
    /\ Len(input.data) = 4

-----------------------------------------------------------------------------
\* from_data on the raw bytes `q`, all else as in the current call.
RawCall(q) ==
    ingest_run([input EXCEPT !.data = q], NewCall("from_data"))

-----------------------------------------------------------------------------
\* The characters that are emitted, by global index, in document order.
EmittedIdx(d) ==
    SelectSeq([i \in 1 .. TotalChars(d) |-> i - 1], LAMBDA i : ~Dropped(d, i))

\* The code point at global index i.
CharAt(d, i) == d[CharNode(d, i)].text[i - StartOf(d, CharNode(d, i)) + 1]

RECURSIVE ConcatTexts(_)
ConcatTexts(chunks) ==
    IF chunks = <<>> THEN <<>> ELSE Head(chunks).text \o ConcatTexts(Tail(chunks))

\* Characters in the chunks before chunk k.
ChunkOffset(k) == SumSeq([j \in 1 .. (k - 1) |-> Len(Chunks[j].text)])

\* The text nodes behind the bytes of span s of chunk k: the characters of
\* the chunk whose first byte lies in the span, looked up in the document.
SpanNodes(k, s) ==
    LET c == Chunks[k] IN
    {CharNode(doc, EmittedIdx(doc)[ChunkOffset(k) + p]) :
        p \in {q \in 1 .. Len(c.text) :
                  /\ c.spans[s].start <= byte_len(SubSeq(c.text, 1, q - 1))
                  /\ byte_len(SubSeq(c.text, 1, q - 1)) < c.spans[s].end}}

\* C12: the chunk texts, concatenated in list order, are the emitted
\* characters of the subtree in document order; in each chunk every span
\* covers the characters of one text node (a child of the span's element),
\* and the spans follow each other in increasing byte ranges and in the
\* document order of those text nodes.
C12_DocumentOrder ==
    pc = "done" =>
        /\ ConcatTexts(Chunks) =
              [j \in 1 .. Len(EmittedIdx(doc)) |-> CharAt(doc, EmittedIdx(doc)[j])]
        /\ \A k \in 1 .. Len(Chunks) :
              /\ \A s \in 1 .. Len(Chunks[k].spans) :
                    /\ Cardinality(SpanNodes(k, s)) = 1
                    /\ \A n \in SpanNodes(k, s) :
                          ParentOf(doc, n) = Chunks[k].spans[s].elem
              /\ \A s \in 1 .. (Len(Chunks[k].spans) - 1) :
                    /\ Chunks[k].spans[s].start < Chunks[k].spans[s + 1].start
                    /\ Chunks[k].spans[s].end <= Chunks[k].spans[s + 1].start
                    /\ \A n \in SpanNodes(k, s), m \in SpanNodes(k, s + 1) : n < m

\* Several chunks, one of them with spans from two text nodes, in a subtree
\* where a character between them was dropped.
C12_Witness ==
    /\ pc = "done"
    /\ Len(Chunks) >= 2
    /\ \E k \in 1 .. Len(Chunks) :
          /\ Len(Chunks[k].spans) >= 2
          /\ \E n \in SpanNodes(k, 1), m \in SpanNodes(k, 2), i \in 0 .. (TotalChars(doc) - 1) :
                Dropped(doc, i) /\ EndOf(doc, n) <= i /\ i < StartOf(doc, m)

-----------------------------------------------------------------------------
\* C13: every call of convert ends with exactly one more child of the
\* parent, a Text record, after the children the parent had, which are
\* unchanged; this includes subtrees of which no character is emitted.
C13_AppendsOneText ==
    [][pc = "start" =>
          /\ pc' = "done"
          /\ Len(parent_out') = Len(parent_out) + 1
          /\ SubSeq(parent_out', 1, Len(parent_out)) = parent_out
          /\ parent_out'[Len(parent_out')].kind = "Text"]_vars

\* A parent that had a child got a Text record with no chunk for a subtree
\* whose only character is dropped.
C13_Witness ==
    /\ pc = "done"
    /\ Len(parent_out) = 2
    /\ parent_out[1].kind = "Path"
    /\ parent_out[2].kind = "Text"
    /\ parent_out[2].chunks = <<>>
    /\ TotalChars(doc) >= 1

-----------------------------------------------------------------------------
\* The global index of the first character of chunk k.
ChunkFirstChar(k) == EmittedIdx(doc)[ChunkOffset(k) + 1]

\* C14: for every emitted character, the index chars_count with which the
\* collector read pos_list is the number of code points before that
\* character in document order, whatever was skipped before it; so the x and
\* y of every chunk are the resolved position of the chunk's first character.
C14_PositionAlignment ==
    pc = "done" =>
        /\ \A j \in 1 .. Len(Log) :
              Log[j].idx = StartOf(doc, Log[j].node) + Log[j].k - 1
        /\ \A k \in 1 .. Len(Chunks) :
              /\ Chunks[k].x = pos_list[ChunkFirstChar(k) + 1].x
              /\ Chunks[k].y = pos_list[ChunkFirstChar(k) + 1].y
              /\ Chunks[k].x = ExpectedPosition(doc, "x", ChunkFirstChar(k))
              /\ Chunks[k].y = ExpectedPosition(doc, "y", ChunkFirstChar(k))

\* A chunk that takes its x or y from the position list starts after a
\* dropped character.
C14_Witness ==
    /\ pc = "done"
    /\ \E k \in 1 .. Len(Chunks) :
          /\ IsSome(Chunks[k].x) \/ IsSome(Chunks[k].y)
          /\ \E i \in 0 .. (ChunkFirstChar(k) - 1) : Dropped(doc, i)

-----------------------------------------------------------------------------
DecorationTokens == {"underline", "overline", "line-through"}

\* The decoration style of a span for a token.
DecorationOf(span, token) ==
    CASE token = "underline" -> span.decoration.underline
      [] token = "overline" -> span.decoration.overline
      [] OTHER -> span.decoration.line_through

\* Element e declares exactly the token.
DeclaresExactly(e, token) == doc[e].text_decoration = Some(<<token>>)

\* A proper ancestor of element e, inside the subtree or above the `text`
\* element, has the token in its text-decoration list.
AncestorHasToken(e, token) ==
    \/ \E a \in 1 .. (e - 1) :
          IsAncestor(doc, a, e) /\ HasToken(doc[a].text_decoration, token)
    \/ \E k \in 1 .. Len(above) : HasToken(above[k].text_decoration, token)

\* C15: for every span and each of underline, overline, line-through, the
\* decoration is present when the span's element declares exactly that token
\* or one of its ancestors has the token in its list, and only when the
\* element or one of its ancestors has the token; when present, the style
\* comes from the span's element if it declares the token, else from the
\* `text` element.
C15_DecorationResolved ==
    pc = "done" =>
        \A k \in 1 .. Len(Chunks) : \A s \in 1 .. Len(Chunks[k].spans) :
            \A token \in DecorationTokens :
                LET span == Chunks[k].spans[s]
                    e    == span.elem
                IN  /\ (DeclaresExactly(e, token) \/ AncestorHasToken(e, token))
                          => IsSome(DecorationOf(span, token))
                    /\ IsSome(DecorationOf(span, token))
                          => (HasToken(doc[e].text_decoration, token)
                                 \/ AncestorHasToken(e, token))
                    /\ IsSome(DecorationOf(span, token)) =>
                          DecorationOf(span, token) =
                              IF DeclaresExactly(e, token) THEN Some(e) ELSE Some(1)

-----------------------------------------------------------------------------
\* The `text` element (k = 1) and its ancestors, nearest first.
SelfOrAncestor(k) == IF k = 1 THEN doc[1] ELSE above[Len(above) + 2 - k]

VerticalValues == {"tb", "tb-rl", "vertical-rl", "vertical-lr"}

\* C16: the writing mode of the Text record is TopToBottom exactly when the
\* nearest ancestor-or-self of the `text` element that has a writing-mode
\* attribute has one of tb, tb-rl, vertical-rl, vertical-lr; any other value
\* there, and no attribute anywhere, give LeftToRight.
C16_WritingMode ==
    pc = "done" =>
        /\ writing_mode \in {"TopToBottom", "LeftToRight"}
        /\ writing_mode = "TopToBottom" <=>
              \E k \in 1 .. (Len(above) + 1) :
                  /\ IsSome(SelfOrAncestor(k).writing_mode)
                  /\ Unwrap(SelfOrAncestor(k).writing_mode) \in VerticalValues
                  /\ \A j \in 1 .. (k - 1) : ~IsSome(SelfOrAncestor(j).writing_mode)
        /\ parent_out[Len(parent_out)].writing_mode = writing_mode

\* The `text` element has no attribute, its parent says rl-tb, the root says
\* tb: the parent decides, LeftToRight.
C16_Witness ==
    /\ pc = "done"
    /\ Len(above) = 2
    /\ doc[1].writing_mode = None
    /\ above[2].writing_mode = Some("rl-tb")
    /\ above[1].writing_mode = Some("tb")
    /\ writing_mode = "LeftToRight"

-----------------------------------------------------------------------------
\* The text from_str was called with.
GivenText ==
    IF input.entry = "from_str" THEN input.text ELSE to_text(TextBytes).val

\* The code points of t that are not NUL, in order.
RECURSIVE NonNul(_)
NonNul(t) ==
    IF t = <<>> THEN <<>>
    ELSE IF Head(t) = 0 THEN NonNul(Tail(t))
    ELSE <<Head(t)>> \o NonNul(Tail(t))

\* C17: once from_str has preprocessed its text, with forgiving set the
\* text handed on is the given text without its NUL code points, the others
\* kept in order (no NUL is left, preprocessing it again changes nothing),
\* and a warning was logged iff the given text held a NUL; with forgiving
\* not set the text is the given text, NULs included, and nothing was logged.
C17_PreprocessText ==
    (\E k \in 1 .. Len(ing.stages) : ing.stages[k] = "preprocess_text") =>
        IF input.forgiving
        THEN /\ ing.text = NonNul(GivenText)
             /\ \A k \in 1 .. Len(ing.text) : ing.text[k] # 0
             /\ preprocess_text(ing.text, TRUE).text = ing.text
             /\ ing.warned <=> (\E k \in 1 .. Len(GivenText) : GivenText[k] = 0)
        ELSE /\ ing.text = GivenText
             /\ ~ing.warned

\* Forgiving: two NULs were removed from the given text and a warning logged.
C17_Witness ==
    /\ input.forgiving
    /\ input.entry = "from_str"
    /\ Len(input.text) >= 2
    /\ \A k \in 1 .. Len(input.text) : input.text[k] = 0
    /\ ing.text = <<>>
    /\ ing.warned

-----------------------------------------------------------------------------
\* The indices of a list of total_chars entries.
ValidIndices == 0 .. (TotalChars(doc) - 1)

\* C18: every index with which resolve_positions_list reads or writes the
\* position list, resolve_rotate_list the rotate list and the chunk
\* collector the position list is below total_chars, the length of those
\* lists; no call of convert ends in an index out of bounds.
C18_IndicesInBounds ==
    /\ pc # "panicked"
    /\ pc = "done" =>
          /\ resolve_positions_list(doc).ok
          /\ resolve_positions_list(doc).touched \subseteq ValidIndices
          /\ resolve_rotate_list(doc).ok
          /\ resolve_rotate_list(doc).touched \subseteq ValidIndices
          /\ iter_state.ok
          /\ \A j \in 1 .. Len(Log) : Log[j].idx \in ValidIndices
          /\ Len(pos_list) = TotalChars(doc)
          /\ Len(rotate_list) = TotalChars(doc)

\* The last entry of the lists was written from a position list longer than
\* its element's characters, after a rotate list on a textPath, and a
\* character was emitted after a dropped one.
C18_Witness ==
    /\ pc = "done"
    /\ \E e \in 1 .. Len(doc) : \E field \in {"x", "y", "dx", "dy"} :
          /\ IsSome(doc[e][field])
          /\ Len(Unwrap(doc[e][field])) > EndOf(doc, e) - StartOf(doc, e)
          /\ EndOf(doc, e) = TotalChars(doc)
          /\ EndOf(doc, e) > StartOf(doc, e)
    /\ (TotalChars(doc) - 1) \in resolve_positions_list(doc).touched

\* A rotate list on a textPath was applied up to the last character.
C18_RotateOnTextPath ==
    /\ pc = "done"
    /\ \E e \in 1 .. Len(doc) :
          doc[e].kind = "textPath" /\ IsSome(doc[e].rotate) /\ EndOf(doc, e) > StartOf(doc, e)
    /\ (TotalChars(doc) - 1) \in resolve_rotate_list(doc).touched

-----------------------------------------------------------------------------
WeightSteps == {100, 200, 300, 400, 500, 600, 700, 800, 900}

\* The running weight of element e after the first n values of its chain.
RunningWeight(e, n) ==
    font_weight_fold([weight |-> 400, underflow |-> FALSE],
                     SubSeq(font_weight_chain(doc, above, e), 1, n))

\* C19: for every element of the subtree, after each value of its chain of
\* font-weight values the running weight is one of 100, 200, ..., 900; at a
\* `lighter` the weight is at least the step that is subtracted from it; and
\* the returned u16 is the final weight, nothing cut off.
C19_WeightInRange ==
    pc = "done" =>
        \A e \in 1 .. Len(doc) :
            is_element(doc[e]) =>
                LET chain == font_weight_chain(doc, above, e) IN
                /\ \A n \in 0 .. Len(chain) :
                      /\ RunningWeight(e, n).weight \in WeightSteps
                      /\ ~RunningWeight(e, n).underflow
                /\ \A n \in 1 .. Len(chain) :
                      chain[n] = "lighter" =>
                          RunningWeight(e, n - 1).weight >=
                              (IF RunningWeight(e, n - 1).weight = 400 THEN 200 ELSE 100)
                /\ RunningWeight(e, Len(chain)).weight < 65536
                /\ resolve_font_weight(doc, above, e) = RunningWeight(e, Len(chain)).weight

\* `lighter` met the weight 100 (the subtraction gives 0, the bound 100), and
\* `bolder` met 900, on chains of a span that was produced.
C19_Witness ==
    /\ pc = "done"
    /\ Len(Chunks) >= 1
    /\ LET e == Chunks[1].spans[1].elem
           chain == font_weight_chain(doc, above, e)
       IN  /\ \E n \in 1 .. Len(chain) :
                 chain[n] = "lighter" /\ RunningWeight(e, n - 1).weight = 100
           /\ Chunks[1].spans[1].weight = 100

\* `bolder` met the weight 900 and left it there.
C19_BolderAtTop ==
    /\ pc = "done"
    /\ \E e \in 1 .. Len(doc) :
          /\ is_element(doc[e])
          /\ \E n \in 1 .. Len(font_weight_chain(doc, above, e)) :
                /\ font_weight_chain(doc, above, e)[n] = "bolder"
                /\ RunningWeight(e, n - 1).weight = 900
                /\ RunningWeight(e, n).weight = 900

====
